---- MODULE Spec2Model ----
(***************************************************************************)
(* Model of main.py: the near-Earth-object pipeline                        *)
(*   get_response -> transform_data -> make_dict -> create_connection ->   *)
(*   table_init -> insert_data -> get_information -> conn.close()          *)
(* Numbers of the feed (velocities, distances, diameters) are modelled as  *)
(* naturals; astype(float) is exact on them.  Storage in a REAL column is  *)
(* modelled by ToReal (rounding to a 24-bit significand).                  *)
(***************************************************************************)
EXTENDS Integers, Sequences, FiniteSets, TLC

VARIABLES
  pc,        \* the statement of main (lines 158-170) to execute next
  env,       \* the configuration values present in the environment
  started,   \* the steps of main this run has entered
  status,    \* resp.status_code (0 before the request)
  response,  \* what get_response returned: None or the near_earth_objects dict
  df,        \* the DataFrame transform_data returned, a sequence of rows
  csv,       \* the rows of report_NASA.csv
  d,         \* the dict make_dict returned
  err,       \* the exception that ended the run, "" if none
  conn,      \* the connection: "none", "open" or "closed"
  table,     \* the committed contents of table asteroids
  names,     \* what get_information returned
  inserted,  \* the rows handed to the insert_data calls that committed
  runs       \* the number of this run of the program

vars == <<pc, env, started, status, response, df, csv, d, err, conn, table,
          names, inserted, runs>>

-----------------------------------------------------------------------------
(* Bounds of the model *)

MaxDays == 2
MaxRecs == 2
MaxEvents == 2
MaxRows == 3
MaxRuns == 2
MaxMissing == 1

-----------------------------------------------------------------------------
(* Program constants *)

\* make_dict divides the seconds by 360
SecondsDivisor == 360

\* a REAL column keeps a 24-bit significand
RealSignificandBits == 24

\* the arguments main passes to get_information
MainSearchingDate == "2023-01-23"
MainMissDistanceKm == 48695064

ConfigKeys == {"KEY_NASA", "DB_NAME", "DB_USER", "DB_PASSWORD", "DB_HOST"}

-----------------------------------------------------------------------------
(* Input domains *)

SeqsUpTo(S, n) == UNION {[1..k -> S] : k \in 0..n}

Dates == {"2023-01-22", "2023-01-23"}

Asteroids ==
  { [id |-> 2099942, name |-> "99942 Apophis", haz |-> TRUE,  dmin |-> 3, dmax |-> 5],
    [id |-> 2101955, name |-> "101955 Bennu",  haz |-> FALSE, dmin |-> 2, dmax |-> 3],
    [id |-> 2006585, name |-> "6585 O'Keefe",  haz |-> FALSE, dmin |-> 2, dmax |-> 5] }

Event(v, m, dt) ==
  [relative_velocity |-> [kilometers_per_second |-> v],
   miss_distance |-> [kilometers |-> m],
   close_approach_date |-> dt]

Events ==
  { Event(10, 36000, "2023-01-22"),
    Event(10, 1800, "2023-01-22"),
    Event(5, 48695064, "2023-01-23"),
    Event(5, 48695065, "2023-01-23"),
    Event(0, 36000, "2023-01-23"),
    Event(0, 0, "2023-01-22") }

AsteroidRecord(a, es) ==
  [id |-> a.id, name |-> a.name,
   is_potentially_hazardous_asteroid |-> a.haz,
   estimated_diameter |->
     [kilometers |-> [estimated_diameter_min |-> a.dmin,
                      estimated_diameter_max |-> a.dmax]],
   close_approach_data |-> es]

RecordsOf(asts, evs, maxEv) ==
  {AsteroidRecord(a, es) : a \in asts, es \in SeqsUpTo(evs, maxEv)}

\* a RawFeed is a dict: distinct date keys in insertion order
FeedsOf(dates, recs, maxDays, maxRecs) ==
  {f \in SeqsUpTo([day : dates, objects : SeqsUpTo(recs, maxRecs)], maxDays) :
      \A i, j \in 1..Len(f) : i # j => f[i].day # f[j].day}

FlatRow(a, e) ==
  [id |-> a.id, name |-> a.name,
   is_potentially_hazardous_asteroid |-> a.is_potentially_hazardous_asteroid,
   estimated_diameter_min_km |-> a.estimated_diameter.kilometers.estimated_diameter_min,
   estimated_diameter_max_km |-> a.estimated_diameter.kilometers.estimated_diameter_max,
   relative_velocity_km_sec |-> e.relative_velocity.kilometers_per_second,
   miss_distance_km |-> e.miss_distance.kilometers,
   searching_date |-> e.close_approach_date]

-----------------------------------------------------------------------------
(* transform_data *)

RECURSIVE Concat(_)
Concat(ss) == IF ss = <<>> THEN <<>> ELSE Head(ss) \o Concat(Tail(ss))

\* pd.json_normalize(objs, record_path="close_approach_data", meta=[...]):
\* one row per close-approach event, the record's meta repeated
json_normalize(objs) ==
  Concat([i \in 1..Len(objs) |->
            [k \in 1..Len(objs[i].close_approach_data) |->
               FlatRow(objs[i], objs[i].close_approach_data[k])]])

\* the frame has the "cpd." columns only when some event was extracted
HasCpdColumns(objs) == json_normalize(objs) # <<>>

NoneResponse == [none |-> TRUE, days |-> <<>>]

transform_data(report) ==
  IF report.none THEN [err |-> "AttributeError", rows |-> <<>>]
  ELSE IF \E i \in 1..Len(report.days) : ~HasCpdColumns(report.days[i].objects)
       THEN [err |-> "KeyError", rows |-> <<>>]
       ELSE [err |-> "", rows |->
               Concat([i \in 1..Len(report.days) |->
                         json_normalize(report.days[i].objects)])]

-----------------------------------------------------------------------------
(* make_dict *)

NoReport ==
  [potentially_hazardous_count |-> -1,
   name_with_max_estimated_diam |-> "",
   min_collision_hours |-> -1]

\* line 97: rows whose hazard flag is True
hazard_count(rows) ==
  Cardinality({i \in 1..Len(rows) : rows[i].is_potentially_hazardous_asteroid})

\* df["estimated_diameter_max_km"].max()
ColumnMax(rows) ==
  CHOOSE m \in {rows[i].estimated_diameter_max_km : i \in 1..Len(rows)} :
    \A i \in 1..Len(rows) : rows[i].estimated_diameter_max_km <= m

IsMaxRow(rows, r) == r.estimated_diameter_max_km = ColumnMax(rows)

\* a variant of max_name taking the last row at the maximum (.iloc[-1])
max_name_last(rows) ==
  LET hit == {i \in 1..Len(rows) : IsMaxRow(rows, rows[i])}
      last == CHOOSE i \in hit : \A j \in hit : j <= i
  IN  rows[last].name

\* line 98: df[df[col] == df[col].max()].iloc[0]["name"]
max_name(rows) ==
  LET hit == {i \in 1..Len(rows) : IsMaxRow(rows, rows[i])}
      first == CHOOSE i \in hit : \A j \in hit : i <= j
  IN  rows[first].name

\* line 99: (miss / velocity) / 360 in floating point:
\* x/0 is inf for x > 0 and 0/0 is NaN, no exception is raised
Ratio(r) ==
  IF r.relative_velocity_km_sec = 0
  THEN [kind |-> IF r.miss_distance_km = 0 THEN "nan" ELSE "inf", num |-> 0, den |-> 1]
  ELSE [kind |-> "fin", num |-> r.miss_distance_km,
        den |-> r.relative_velocity_km_sec * SecondsDivisor]

\* a.num/a.den <= b.num/b.den, without building large products
FracLeq(a, b) ==
  LET qa == a.num \div a.den
      qb == b.num \div b.den
  IN  \/ qa < qb
      \/ qa = qb /\ (a.num % a.den) * b.den <= (b.num % b.den) * a.den

\* Series.min() skips NaN; inf is above every finite value
SeriesMin(rows) ==
  LET rs  == {Ratio(rows[i]) : i \in 1..Len(rows)}
      fin == {x \in rs : x.kind = "fin"}
  IN  IF fin # {} THEN CHOOSE x \in fin : \A y \in fin : FracLeq(x, y)
      ELSE IF \E x \in rs : x.kind = "inf" THEN [kind |-> "inf", num |-> 0, den |-> 1]
      ELSE [kind |-> "nan", num |-> 0, den |-> 1]

\* round(x) of Python: to the nearest integer, halves to the even one
PyRound(num, den) ==
  LET q == num \div den
      r == num % den
  IN  IF 2 * r < den THEN q
      ELSE IF 2 * r > den THEN q + 1
      ELSE IF q % 2 = 0 THEN q ELSE q + 1

make_dict(rows) ==
  IF rows = <<>> THEN [err |-> "IndexError", report |-> NoReport]
  ELSE LET m == SeriesMin(rows)
       IN  IF m.kind = "inf" THEN [err |-> "OverflowError", report |-> NoReport]
           ELSE IF m.kind = "nan" THEN [err |-> "ValueError", report |-> NoReport]
           ELSE [err |-> "",
                 report |->
                   [potentially_hazardous_count |-> hazard_count(rows),
                    name_with_max_estimated_diam |-> max_name(rows),
                    min_collision_hours |-> PyRound(m.num, m.den)]]

-----------------------------------------------------------------------------
(* The store: table asteroids *)

RECURSIVE Pow2(_)
Pow2(n) == IF n = 0 THEN 1 ELSE 2 * Pow2(n - 1)

\* the unit in the last place of x in a REAL column
RECURSIVE Ulp(_, _)
Ulp(x, q) == IF x < q * Pow2(RealSignificandBits) THEN q ELSE Ulp(x, 2 * q)

\* lines 129-132: a value stored in a REAL column is rounded to the nearest
\* value with a 24-bit significand, halves to the even one
ToReal(x) ==
  LET q  == Ulp(x, 1)
      lo == (x \div q) * q
      r  == x - lo
  IN  IF 2 * r < q THEN lo
      ELSE IF 2 * r > q THEN lo + q
      ELSE IF (lo \div q) % 2 = 0 THEN lo ELSE lo + q

\* line 142: str() of a record quotes a name holding an apostrophe with
\* double quotes, which SQL reads as an identifier
HasApostrophe(s) == s \in {"6585 O'Keefe"}

RowSqlOk(r) == ~HasApostrophe(r.name)

StoredRow(r) ==
  [r EXCEPT !.estimated_diameter_min_km = ToReal(@),
            !.estimated_diameter_max_km = ToReal(@),
            !.relative_velocity_km_sec = ToReal(@),
            !.miss_distance_km = ToReal(@)]

StoredRows(rows) == [i \in 1..Len(rows) |-> StoredRow(rows[i])]

StoreError == "psycopg2.Error"

\* a variant of insert_data that inserts and commits row by row, so that a
\* failure leaves the rows before it persisted
insert_data_per_row(tbl, rows) ==
  {[err |-> StoreError, rows |-> tbl \o StoredRows(SubSeq(rows, 1, k))] :
      k \in {j \in 0..Len(rows) : j = Len(rows) \/ ~RowSqlOk(rows[j + 1])
                                     \/ \A i \in 1..Len(rows) : RowSqlOk(rows[i])}}
  \cup (IF rows # <<>> /\ \A i \in 1..Len(rows) : RowSqlOk(rows[i])
        THEN {[err |-> "", rows |-> tbl \o StoredRows(rows)]} ELSE {})

\* lines 141-145: one INSERT statement for the whole batch, then commit.
\* The outcomes: the statement is refused (empty VALUES list, malformed row,
\* server failure) and nothing is committed, or the whole batch is committed.
insert_data(tbl, rows) ==
  IF rows = <<>> \/ \E i \in 1..Len(rows) : ~RowSqlOk(rows[i])
  THEN {[err |-> StoreError, rows |-> tbl]}
  ELSE {[err |-> StoreError, rows |-> tbl],
        [err |-> "", rows |-> tbl \o StoredRows(rows)]}

\* line 152: WHERE searching_date = '<date>' AND miss_distance_km = <number>;
\* the stored REAL is compared with the number as double precision
MatchesQuery(r, searching_date, miss_distance_km) ==
  /\ r.searching_date = searching_date
  /\ r.miss_distance_km = miss_distance_km

RECURSIVE SelectNames(_, _, _)
SelectNames(tbl, searching_date, miss_distance_km) ==
  IF tbl = <<>> THEN <<>>
  ELSE (IF MatchesQuery(Head(tbl), searching_date, miss_distance_km)
        THEN <<Head(tbl).name>> ELSE <<>>)
       \o SelectNames(Tail(tbl), searching_date, miss_distance_km)

get_information(tbl, searching_date, miss_distance_km) ==
  SelectNames(tbl, searching_date, miss_distance_km)

-----------------------------------------------------------------------------
(* The inputs of a run *)

\* the environments: at most MaxMissing of the configuration values absent
Environments ==
  {ConfigKeys \ m : m \in {x \in SUBSET ConfigKeys : Cardinality(x) <= MaxMissing}}

Statuses == {200, 403, 500}

Apophis == CHOOSE a \in Asteroids : a.name = "99942 Apophis"
Bennu   == CHOOSE a \in Asteroids : a.name = "101955 Bennu"
OKeefe  == CHOOSE a \in Asteroids : a.name = "6585 O'Keefe"

Day(dt, objs) == [day |-> dt, objects |-> objs]

OneDay(objs) == <<Day(MainSearchingDate, objs)>>

\* the feeds the modelled runs receive with a 200 answer
RunFeeds ==
  { <<>>,
    OneDay(<<>>),
    OneDay(<<AsteroidRecord(Apophis, <<Event(5, 48695064, "2023-01-23")>>)>>),
    OneDay(<<AsteroidRecord(Bennu, <<Event(5, 48695065, "2023-01-23")>>)>>),
    OneDay(<<AsteroidRecord(Apophis, <<Event(10, 36000, "2023-01-22"),
                                       Event(5, 48695064, "2023-01-23")>>),
             AsteroidRecord(Bennu, <<>>)>>),
    OneDay(<<AsteroidRecord(OKeefe, <<Event(5, 48695064, "2023-01-23")>>)>>),
    OneDay(<<AsteroidRecord(Apophis, <<Event(5, 48695064, "2023-01-23")>>),
             AsteroidRecord(OKeefe, <<Event(10, 1800, "2023-01-23")>>)>>),
    << Day("2023-01-22", <<AsteroidRecord(Apophis, <<Event(10, 36000, "2023-01-22")>>)>>),
       Day("2023-01-23", <<AsteroidRecord(Bennu, <<Event(5, 48695064, "2023-01-23")>>)>>) >>,
    OneDay(<<AsteroidRecord(Bennu, <<Event(0, 36000, "2023-01-23")>>)>>) }

\* the feeds transform_data is checked on
FlattenFeeds ==
  FeedsOf(Dates,
          RecordsOf({a \in Asteroids : a.dmax = 5},
                    {e \in Events : e.miss_distance.kilometers = 36000},
                    MaxEvents),
          MaxDays, MaxRecs)

\* the row-sets make_dict is checked on
Rows == {FlatRow(AsteroidRecord(a, <<>>), e) : a \in Asteroids, e \in Events}

RowSets == SeqsUpTo(Rows, MaxRows)

-----------------------------------------------------------------------------
(* The steps of main *)

Terminal == pc \in {"done", "aborted"}

Abort(e) == pc' = "aborted" /\ err' = e

\* lines 12-26: the request is issued whatever the environment holds; any
\* status but 200 prints "Error!" and returns None
GetResponse ==
  /\ pc = "get_response"
  /\ started' = started \cup {"get_response"}
  /\ \/ /\ Abort("requests.ConnectionError")
        /\ UNCHANGED <<status, response>>
     \/ /\ \E st \in Statuses :
             /\ status' = st
             /\ IF st = 200
                THEN \E f \in RunFeeds : response' = [none |-> FALSE, days |-> f]
                ELSE response' = NoneResponse
        /\ pc' = "transform_data"
        /\ err' = err
  /\ UNCHANGED <<env, df, csv, d, conn, table, names, inserted, runs>>

\* lines 29-92, called at line 160
TransformData ==
  /\ pc = "transform_data"
  /\ started' = started \cup {"transform_data"}
  /\ LET r == transform_data(response)
     IN  IF r.err # ""
         THEN Abort(r.err) /\ UNCHANGED <<df, csv>>
         ELSE /\ df' = r.rows
              /\ csv' = r.rows
              /\ pc' = "make_dict"
              /\ err' = err
  /\ UNCHANGED <<env, status, response, d, conn, table, names, inserted, runs>>

\* lines 95-106, called at line 162
MakeDict ==
  /\ pc = "make_dict"
  /\ started' = started \cup {"make_dict"}
  /\ LET r == make_dict(df)
     IN  IF r.err # ""
         THEN Abort(r.err) /\ d' = d
         ELSE /\ d' = r.report
              /\ pc' = "create_connection"
              /\ err' = err
  /\ UNCHANGED <<env, status, response, df, csv, conn, table, names, inserted, runs>>

\* lines 109-117: connect is attempted with whatever the environment holds
CreateConnection ==
  /\ pc = "create_connection"
  /\ started' = started \cup {"create_connection"}
  /\ \/ Abort("psycopg2.OperationalError") /\ conn' = conn
     \/ conn' = "open" /\ pc' = "table_init" /\ err' = err
  /\ UNCHANGED <<env, status, response, df, csv, d, table, names, inserted, runs>>

\* lines 120-136
TableInit ==
  /\ pc = "table_init"
  /\ started' = started \cup {"table_init"}
  /\ \/ Abort(StoreError) /\ table' = table
     \/ /\ table' = [table EXCEPT !.exists = TRUE]
        /\ pc' = "insert_data"
        /\ err' = err
  /\ UNCHANGED <<env, status, response, df, csv, d, conn, names, inserted, runs>>

\* lines 139-145
InsertData ==
  /\ pc = "insert_data"
  /\ started' = started \cup {"insert_data"}
  /\ \E o \in insert_data(table.rows, df) :
       /\ table' = [table EXCEPT !.rows = o.rows]
       /\ IF o.err # ""
          THEN Abort(o.err) /\ inserted' = inserted
          ELSE /\ pc' = "get_information"
               /\ err' = err
               /\ inserted' = inserted \o df
  /\ UNCHANGED <<env, status, response, df, csv, d, conn, names, runs>>

\* lines 148-155, called at line 168
GetInformation ==
  /\ pc = "get_information"
  /\ started' = started \cup {"get_information"}
  /\ \/ Abort(StoreError) /\ names' = names
     \/ /\ names' = get_information(table.rows, MainSearchingDate, MainMissDistanceKm)
        /\ pc' = "close"
        /\ err' = err
  /\ UNCHANGED <<env, status, response, df, csv, d, conn, table, inserted, runs>>

\* line 170
Close ==
  /\ pc = "close"
  /\ conn' = "closed"
  /\ pc' = "done"
  /\ UNCHANGED <<env, started, status, response, df, csv, d, err, table, names,
                 inserted, runs>>

\* the program is run again: the table and the CSV file outlive the process
NextRun ==
  /\ Terminal
  /\ runs < MaxRuns
  /\ runs' = runs + 1
  /\ pc' = "get_response"
  /\ env' \in Environments
  /\ started' = {}
  /\ status' = 0
  /\ response' = NoneResponse
  /\ df' = <<>>
  /\ d' = NoReport
  /\ err' = ""
  /\ conn' = "none"
  /\ names' = <<>>
  /\ UNCHANGED <<csv, table, inserted>>

Fresh ==
  /\ started = {}
  /\ status = 0
  /\ response = NoneResponse
  /\ df = <<>>
  /\ csv = <<>>
  /\ d = NoReport
  /\ err = ""
  /\ conn = "none"
  /\ table = [exists |-> FALSE, rows |-> <<>>]
  /\ names = <<>>
  /\ inserted = <<>>
  /\ runs = 1

Init ==
  /\ pc = "get_response"
  /\ env \in Environments
  /\ Fresh

Next ==
  \/ GetResponse
  \/ TransformData
  \/ MakeDict
  \/ CreateConnection
  \/ TableInit
  \/ InsertData
  \/ GetInformation
  \/ Close
  \/ NextRun

Spec == Init /\ [][Next]_vars

\* transform_data applied to every feed of FlattenFeeds
InitFlatten ==
  /\ pc = "transform_data"
  /\ env = ConfigKeys
  /\ started = {"get_response"}
  /\ status = 200
  /\ response \in {[none |-> FALSE, days |-> f] : f \in FlattenFeeds}
  /\ df = <<>>
  /\ csv = <<>>
  /\ d = NoReport
  /\ err = ""
  /\ conn = "none"
  /\ table = [exists |-> FALSE, rows |-> <<>>]
  /\ names = <<>>
  /\ inserted = <<>>
  /\ runs = 1

SpecFlatten == InitFlatten /\ [][TransformData]_vars

\* make_dict applied to every row-set of RowSets
InitSummary ==
  /\ pc = "make_dict"
  /\ env = ConfigKeys
  /\ started = {"get_response", "transform_data"}
  /\ status = 200
  /\ response = [none |-> FALSE, days |-> <<>>]
  /\ df \in RowSets
  /\ csv = df
  /\ d = NoReport
  /\ err = ""
  /\ conn = "none"
  /\ table = [exists |-> FALSE, rows |-> <<>>]
  /\ names = <<>>
  /\ inserted = <<>>
  /\ runs = 1

SpecSummary == InitSummary /\ [][MakeDict]_vars

-----------------------------------------------------------------------------
(* Properties *)

Range(q) == {q[i] : i \in 1..Len(q)}

RECURSIVE Sum(_)
Sum(q) == IF q = <<>> THEN 0 ELSE Head(q) + Sum(Tail(q))

\* the number of close-approach events of all records of all dates
EventCount(days) ==
  Sum([i \in 1..Len(days) |->
         Sum([k \in 1..Len(days[i].objects) |->
                Len(days[i].objects[k].close_approach_data)])])

\* C1: for every non-empty feed, transform_data returns a row-set with as
\* many rows as the feed has close-approach events (a record with no event
\* yields no row).
C1_RowCount ==
  (pc # "transform_data" /\ response.days # <<>>)
     => (pc = "make_dict" /\ Len(df) = EventCount(response.days))

\* C2: for every non-empty row-set with nonzero velocities, make_dict returns
\* min_collision_hours = the least, over the rows, of
\* (miss_distance_km / relative_velocity_km_sec) / 3600 rounded to the
\* nearest integer.
C2_MinCollisionHours ==
  (pc # "make_dict" /\ df # <<>>
     /\ \A i \in 1..Len(df) : df[i].relative_velocity_km_sec # 0)
  => /\ pc = "create_connection"
     /\ \E i \in 1..Len(df) :
          /\ d.min_collision_hours =
               PyRound(df[i].miss_distance_km, df[i].relative_velocity_km_sec * 3600)
          /\ \A j \in 1..Len(df) :
               d.min_collision_hours <=
                 PyRound(df[j].miss_distance_km, df[j].relative_velocity_km_sec * 3600)

\* C3: the name make_dict reports is the name of the first row, in input
\* order, whose estimated_diameter_max_km is the maximum of the column.
C3_MaxDiameterName ==
  d # NoReport =>
    \E i \in 1..Len(df) :
      /\ d.name_with_max_estimated_diam = df[i].name
      /\ \A j \in 1..Len(df) :
           df[j].estimated_diameter_max_km <= df[i].estimated_diameter_max_km
      /\ \A j \in 1..(i - 1) :
           df[j].estimated_diameter_max_km < df[i].estimated_diameter_max_km

\* a report was returned for a row-set where two rows of different names
\* share the maximum
C3_Witness ==
  /\ d # NoReport
  /\ pc = "create_connection"
  /\ \E i, j \in 1..Len(df) :
       /\ i < j
       /\ df[i].name # df[j].name
       /\ IsMaxRow(df, df[i]) /\ IsMaxRow(df, df[j])
       /\ \A k \in 1..(i - 1) : ~IsMaxRow(df, df[k])
       /\ d.name_with_max_estimated_diam = df[i].name

\* C4: make_dict on an empty row-set ends in EmptyInputError.
C4_EmptyInputError ==
  (pc # "make_dict" /\ df = <<>>) => (pc = "aborted" /\ err = "EmptyInputError")

\* C5: with any status but 200, get_response ends in an upstream-service
\* error and no later step of the run is started.
C5_UpstreamError ==
  status \notin {0, 200}
    => (pc = "aborted" /\ err = "UpstreamServiceError" /\ started = {"get_response"})

\* C6: no run ends with the connection it acquired still open.
C6_ConnectionClosed ==
  (Terminal /\ conn # "none") => conn = "closed"

\* C7: insert_data either appends the stored form of every row of the batch
\* to the table, in order and without deduplication, or fails with a store
\* error and leaves the table as it was.
C7_InsertAtomic ==
  [][pc = "insert_data" =>
       \/ /\ pc' = "get_information"
          /\ Len(table'.rows) = Len(table.rows) + Len(df)
          /\ SubSeq(table'.rows, 1, Len(table.rows)) = table.rows
          /\ \A i \in 1..Len(df) : table'.rows[Len(table.rows) + i] = StoredRow(df[i])
       \/ /\ pc' = "aborted"
          /\ err' = StoreError
          /\ table'.rows = table.rows]_vars

\* a second run inserted the same rows again and the table holds them twice
C7_Witness ==
  /\ pc = "get_information"
  /\ runs = 2
  /\ Len(df) = 2
  /\ table.rows = StoredRows(df) \o StoredRows(df)

\* the names of the rows of the table stored with this date and distance
MatchingNames(searching_date, miss_distance_km) ==
  {table.rows[k].name :
     k \in {n \in 1..Len(table.rows) :
              /\ table.rows[n].searching_date = searching_date
              /\ table.rows[n].miss_distance_km = miss_distance_km}}

\* C8: get_information called with the date and the miss distance of an
\* inserted row returns that row's name, and only names of rows stored with
\* that date and that distance.
C8_RoundTrip ==
  \A i \in 1..Len(inserted) :
    LET r  == inserted[i]
        ns == get_information(table.rows, r.searching_date, r.miss_distance_km)
    IN  /\ r.name \in Range(ns)
        /\ Range(ns) \subseteq MatchingNames(r.searching_date, r.miss_distance_km)

\* C9: a row with zero velocity makes make_dict end in DivisionByZeroError,
\* whatever the other rows are.
C9_DivisionByZero ==
  (pc # "make_dict" /\ \E i \in 1..Len(df) : df[i].relative_velocity_km_sec = 0)
    => (pc = "aborted" /\ err \in {"DivisionByZeroError", "ZeroDivisionError"})

\* C10: a run with a configuration value absent issues no feed request and
\* attempts no database connection.
C10_ConfigurationError ==
  env # ConfigKeys => started \cap {"get_response", "create_connection"} = {}

====
